---- MODULE Spec2Model ----
(***************************************************************************)
(* A model of the JSON parser of src/json/src/main.rs.                     *)
(*                                                                         *)
(* The parser is a set of mutually recursive functions built from nom      *)
(* combinators.  The text is a sequence of one-character strings, a        *)
(* position p (1..Len+1) stands for the slice &input[p-1..], and every     *)
(* parser returns an IResult: Ok((rest, value)) or Err(Error{input, code}).*)
(* The terminal rules (parse_null, parse_bool, parse_num, parse_str) are   *)
(* operators; the recursive rules (parse_value, parse_array, parse_pair,   *)
(* parse_object) and parse_json run on an explicit call stack, one frame   *)
(* per active call, one action per step of a call.                         *)
(***************************************************************************)
EXTENDS Integers, Sequences, FiniteSets, TLC

\* The texts parsed: every concatenation of up to MaxTokens of Tokens, and
\* Samples.
MaxTokens == 4
\* The number of nested parse_value calls the thread's stack has room for.
StackLimit == 4

Tokens ==
  { <<"[">>, <<"]">>, <<"{">>, <<"}">>, <<",">>, <<":">>, <<" ">>, <<"1">>,
    <<"\"", "a", "\"">> }

\* main's json_str, the characters of its strings outside ASCII written as
\* letters (parse_str treats every character but the quote alike).
MainJsonStr ==
  <<"\n", " ", " ", " ", " ", " ", " ", " ", " ", "{", "\n", " ", " ",
      " ", " ", " ", " ", " ", " ", " ", " ", " ", " ", "\"", "n", "i",
      "c", "k", "n", "a", "m", "e", "\"", ":", "\"", "Z", "S", "\"", ",",
      "\n", " ", " ", " ", " ", " ", " ", " ", " ", " ", " ", " ", " ",
      "\"", "a", "g", "e", "\"", ":", " ", "3", "0", ",", "\n", " ", " ",
      " ", " ", " ", " ", " ", " ", " ", " ", " ", " ", "\"", "i", "s",
      " ", "t", "e", "a", "c", "h", "e", "r", "\"", ":", " ", "f", "a",
      "l", "s", "e", ",", "\n", " ", " ", " ", " ", " ", " ", " ", " ",
      " ", " ", " ", " ", "\"", "s", "c", "o", "r", "e", "s", "\"", ":",
      "[", "9", "0", ",", "8", "5", ",", "9", "5", "]", ",", "\n", " ",
      " ", " ", " ", " ", " ", " ", " ", " ", " ", " ", " ", "\"", "a",
      "d", "d", "r", "e", "s", "s", "\"", ":", "{", "\n", " ", " ", " ",
      " ", " ", " ", " ", " ", " ", " ", " ", " ", " ", " ", " ", " ",
      "\"", "c", "i", "t", "y", "\"", ":", "\"", "B", "J", "\"", ",", "\n",
      " ", " ", " ", " ", " ", " ", " ", " ", " ", " ", " ", " ", " ", " ",
      " ", " ", "\"", "s", "t", "r", "e", "e", "t", "\"", ":", "\"", "Z",
      "G", "C", "D", "J", "\"", ",", "\n", " ", " ", " ", " ", " ", " ",
      " ", " ", " ", " ", " ", " ", " ", " ", " ", " ", "\"", "c", "o",
      "d", "e", "\"", ":", "[", "2", "0", "0", ",", "2", "0", "0", "0",
      "]", "\n", " ", " ", " ", " ", " ", " ", " ", " ", "}", "\n", " ",
      " ", " ", " ", "}", "\n", " ", " ", " ", " ">>

Samples ==
  { <<"n", "u", "l", "l">>,
    <<" ", "t", "r", "u", "e", "\n">>,
    <<"f", "a", "l", "s", "e">>,
    <<"-", "1", "2", ".", "5", "e", "2">>,
    <<"1", ".", "5">>,
    <<"1", "2", "a", "b", "c">>,
    <<"-", "x">>,
    <<"\"", "a", "\\", "n", "b", "\"">>,
    <<"\"", "a", "\\", "\"", "b", "\"">>,
    <<"\"", "a", "b">>,
    <<"[", "\t", "\r", "\n", " ", "]">>,
    <<"{", "\t", "\r", "\n", " ", "}">>,
    <<"[", "1", ",", "2", ",", "]">>,
    <<"[", "1", " ", "2", "]">>,
    <<"[", "1", ",", " ", "x", "]">>,
    <<"[", "n", "u", "l", "l", ",", "-", "2", "]">>,
    <<"{", "1", ":", "2", "}">>,
    <<"{", "\"", "a", "\"", ":", "1", "}", " ", "x">>,
    <<"{", "\"", "a", "\"", ":", "1", ",", "}">>,
    <<"{", "\"", "a", "\"", " ", "1", "}">>,
    <<"{", "\"", "a", "\"", ":", "1", ",", "\"", "a", "\"", ":", "2", "}">>,
    <<"{", "\"", "a", "\"", ":", "1", ",", " ", "\"", "b", "\"", " ", ":",
      "[", "2", ",", "1", ",", "2", "]", " ", "}", "\n">>,
    <<"{", "\"", "a", "\"", ":", "[", "1", ",", "{", "\"", "b", "\"", ":",
      "2", "}", "]", "}">>,
    MainJsonStr }

RECURSIVE Flatten(_)
Flatten(ts) == IF ts = <<>> THEN <<>> ELSE Head(ts) \o Flatten(Tail(ts))

Inputs ==
  {Flatten(ts) : ts \in UNION {[1..n -> Tokens] : n \in 0..MaxTokens}}
    \cup Samples

---------------------------------------------------------------------------
(* JsonValue and IResult *)

Nil == [t |-> "Nil"]
Null == [t |-> "Null"]
Bool(b) == [t |-> "Bool", b |-> b]
Num(f) == [t |-> "Num", f |-> f]
Str(s) == [t |-> "Str", s |-> s]
Array(items) == [t |-> "Array", items |-> items]
Object(pairs) == [t |-> "Object", pairs |-> pairs]
\* The (JsonValue, JsonValue) of parse_pair
Pair(k, v) == [t |-> "Pair", key |-> k, val |-> v]

Ok(rest, val) == [ok |-> TRUE, pos |-> rest, val |-> val, kind |-> "Ok"]
Err(at, kind) == [ok |-> FALSE, pos |-> at, val |-> Nil, kind |-> kind]
NoRet == [ok |-> FALSE, pos |-> 0, val |-> Nil, kind |-> "NoRet"]

Max(a, b) == IF a >= b THEN a ELSE b

---------------------------------------------------------------------------
(* nom's terminal parsers *)

IsSpace(c) == c \in {" ", "\t", "\r", "\n"}
IsDigit(c) == c \in {"0", "1", "2", "3", "4", "5", "6", "7", "8", "9"}

RECURSIVE multispace0(_, _)
multispace0(s, p) ==
  IF p <= Len(s) /\ IsSpace(s[p]) THEN multispace0(s, p + 1) ELSE p

char(s, p, c) ==
  IF p <= Len(s) /\ s[p] = c THEN Ok(p + 1, Str(<<c>>)) ELSE Err(p, "Char")

tag(s, p, lit) ==
  IF p + Len(lit) - 1 <= Len(s) /\ SubSeq(s, p, p + Len(lit) - 1) = lit
  THEN Ok(p + Len(lit), Str(lit))
  ELSE Err(p, "Tag")

RECURSIVE DigitsEnd(_, _)
DigitsEnd(s, p) ==
  IF p <= Len(s) /\ IsDigit(s[p]) THEN DigitsEnd(s, p + 1) ELSE p

digit1(s, p) ==
  LET q == DigitsEnd(s, p)
  IN  IF q > p THEN Ok(q, Str(SubSeq(s, p, q - 1))) ELSE Err(p, "Digit")

RECURSIVE take_while_not_quote(_, _)
take_while_not_quote(s, p) ==
  IF p <= Len(s) /\ s[p] # "\"" THEN take_while_not_quote(s, p + 1) ELSE p

---------------------------------------------------------------------------
(* str::parse::<f64>() on a text matching -?[0-9]+ : the sign and the      *)
(* magnitude (f64 keeps the sign of a zero; the texts here are far below   *)
(* 2^53, so the magnitude is exact).                                       *)

DigitVal(c) ==
  CASE c = "0" -> 0 [] c = "1" -> 1 [] c = "2" -> 2 [] c = "3" -> 3
    [] c = "4" -> 4 [] c = "5" -> 5 [] c = "6" -> 6 [] c = "7" -> 7
    [] c = "8" -> 8 [] c = "9" -> 9

RECURSIVE Magnitude(_)
Magnitude(ds) ==
  IF ds = <<>> THEN 0
  ELSE 10 * Magnitude(SubSeq(ds, 1, Len(ds) - 1)) + DigitVal(ds[Len(ds)])

ParseF64(text) ==
  IF text[1] = "-"
  THEN [neg |-> TRUE, mag |-> Magnitude(Tail(text))]
  ELSE [neg |-> FALSE, mag |-> Magnitude(text)]

---------------------------------------------------------------------------
(* The terminal rules *)

parse_null(s, p) ==
  LET r == tag(s, p, <<"n", "u", "l", "l">>)
  IN  IF r.ok THEN Ok(r.pos, Null) ELSE r

parse_bool(s, p) ==
  LET t == tag(s, p, <<"t", "r", "u", "e">>)
      f == tag(s, p, <<"f", "a", "l", "s", "e">>)
  IN  IF t.ok THEN Ok(t.pos, Bool(TRUE))
      ELSE IF f.ok THEN Ok(f.pos, Bool(FALSE))
      ELSE f

parse_num(s, p) ==
  LET sign == char(s, p, "-")
      q == IF sign.ok THEN sign.pos ELSE p
      d == digit1(s, q)
  IN  IF d.ok THEN Ok(d.pos, Num(ParseF64(SubSeq(s, p, d.pos - 1)))) ELSE d

parse_str(s, p) ==
  LET open == char(s, p, "\"")
      q == take_while_not_quote(s, open.pos)
      close == char(s, q, "\"")
  IN  IF ~open.ok THEN open
      ELSE IF ~close.ok THEN close
      ELSE Ok(close.pos, Str(SubSeq(s, open.pos, q - 1)))

\* The first four alternatives of parse_value's alt, in order.
Terminals(s, p) ==
  <<parse_str(s, p), parse_num(s, p), parse_bool(s, p), parse_null(s, p)>>

TerminalAlt(s, p) ==
  LET rs == Terminals(s, p)
  IN  IF \E i \in 1..4 : rs[i].ok
      THEN rs[CHOOSE i \in 1..4 : rs[i].ok /\ \A j \in 1..(i - 1) : ~rs[j].ok]
      ELSE rs[4]


\* The furthest position at which one of the terminal alternatives tried at p
\* failed (the alternatives after the first success are not tried).
TerminalFailedAt(s, p) ==
  LET rs == Terminals(s, p)
      tried == {i \in 1..4 : ~rs[i].ok /\ \A j \in 1..(i - 1) : ~rs[j].ok}
  IN  IF tried = {} THEN 0
      ELSE CHOOSE m \in {rs[i].pos : i \in tried} :
             \A i \in tried : rs[i].pos <= m

---------------------------------------------------------------------------
(* The recursive rules, on a call stack *)

VARIABLES
  input,     \* the text handed to parse_json
  stack,     \* the active calls, the innermost last
  ret,       \* the IResult the callee just returned to stack's last frame
  status,    \* running | returned | stack_overflow | panicked
  result,    \* what parse_json returned to main
  furthest,  \* history: the furthest position at which an alternative of
             \* parse_value's alt has failed so far
  steps      \* history: the number of steps taken

vars == <<input, stack, ret, status, result, furthest, steps>>

Frame(rule, phase, start) ==
  [rule |-> rule, phase |-> phase, start |-> start, pos |-> start,
   acc |-> <<>>, key |-> Nil]

Top == stack[Len(stack)]
Callers == SubSeq(stack, 1, Len(stack) - 1)
Depth(st) == Cardinality({i \in DOMAIN st : st[i].rule = "parse_value"})
Returned == ret.kind # "NoRet"
At(rule, phase) ==
  /\ status = "running"
  /\ stack # <<>>
  /\ Top.rule = rule
  /\ Top.phase = phase

Init ==
  /\ input \in Inputs
  /\ stack = <<Frame("parse_json", "call", 1)>>
  /\ ret = NoRet
  /\ status = "running"
  /\ result = NoRet
  /\ furthest = 0
  /\ steps = 0

\* The innermost call returns r to its caller.
Return(r) ==
  /\ stack' = Callers
  /\ ret' = r
  /\ status' = status

\* The innermost call, continuing as frame f, calls rule at p.
Call(f, rule, phase, p) ==
  /\ stack' = Append(Append(Callers, f), Frame(rule, phase, p))
  /\ ret' = NoRet
  /\ status' = status

\* A call of parse_value at p.  Each nested parse_value takes stack space and
\* nothing in the code counts the nesting: past the room the thread's stack
\* has, the process is ended by the stack overflow.
CallValue(f, p) ==
  IF Depth(stack) >= StackLimit
  THEN /\ stack' = Append(Callers, f)
       /\ ret' = NoRet
       /\ status' = "stack_overflow"
  ELSE Call(f, "parse_value", "enter", p)

\* parse_json: terminated(parse_value, multispace0)
parse_json_call ==
  /\ At("parse_json", "call")
  /\ CallValue([Top EXCEPT !.phase = "value"], Top.start)
  /\ UNCHANGED <<input, result, furthest>>
  /\ steps' = steps + 1

JsonResult(s, r) == IF r.ok THEN Ok(multispace0(s, r.pos), r.val) ELSE r

parse_json_ret ==
  /\ At("parse_json", "value")
  /\ Returned
  /\ result' = JsonResult(input, ret)
  /\ status' = "returned"
  /\ stack' = <<>>
  /\ ret' = NoRet
  /\ UNCHANGED <<input, furthest>>
  /\ steps' = steps + 1

\* parse_value: preceded(multispace0, alt((parse_str, parse_num, parse_bool,
\* parse_null, parse_array, parse_object)))
parse_value_enter ==
  /\ At("parse_value", "enter")
  /\ LET q == multispace0(input, Top.start)
         r == TerminalAlt(input, q)
     IN  /\ IF r.ok
            THEN Return(r)
            ELSE Call([Top EXCEPT !.phase = "array", !.pos = q],
                      "parse_array", "open", q)
         /\ furthest' = Max(furthest, TerminalFailedAt(input, q))
  /\ UNCHANGED <<input, result>>
  /\ steps' = steps + 1

parse_value_array ==
  /\ At("parse_value", "array")
  /\ Returned
  /\ IF ret.ok
     THEN Return(ret) /\ UNCHANGED furthest
     ELSE /\ Call([Top EXCEPT !.phase = "object"],
                  "parse_object", "open", Top.pos)
          /\ furthest' = Max(furthest, ret.pos)
  /\ UNCHANGED <<input, result>>
  /\ steps' = steps + 1

\* The last alternative's outcome is alt's outcome: nom's Error keeps the
\* error of the last alternative (ParseError::or, and append keeps it).
AltLast(r) == r

parse_value_object ==
  /\ At("parse_value", "object")
  /\ Returned
  /\ Return(AltLast(ret))
  /\ furthest' = IF ret.ok THEN furthest ELSE Max(furthest, ret.pos)
  /\ UNCHANGED <<input, result>>
  /\ steps' = steps + 1


\* parse_array: map(delimited(char('['), separated_list0(preceded(multispace0,
\* char(',')), preceded(multispace0, parse_value)), preceded(multispace0,
\* char(']'))), JsonValue::Array)
\* parse_array_open with the opening bracket only looked at: the elements are
\* parsed from the array's own input.
parse_array_open_peek ==
  /\ At("parse_array", "open")
  /\ LET open == char(input, Top.start, "[")
     IN  IF ~open.ok
         THEN Return(open)
         ELSE CallValue([Top EXCEPT !.phase = "first", !.pos = Top.start],
                        multispace0(input, Top.start))
  /\ UNCHANGED <<input, result, furthest>>
  /\ steps' = steps + 1

parse_array_open ==
  /\ At("parse_array", "open")
  /\ LET open == char(input, Top.start, "[")
     IN  IF ~open.ok
         THEN Return(open)
         ELSE CallValue([Top EXCEPT !.phase = "first", !.pos = open.pos],
                        multispace0(input, open.pos))
  /\ UNCHANGED <<input, result, furthest>>
  /\ steps' = steps + 1

\* separated_list0 has ended with the elements acc and the rest at p: the
\* closing bracket, and the Array.
ArrayClose(p, acc) ==
  LET close == char(input, multispace0(input, p), "]")
  IN  IF close.ok THEN Return(Ok(close.pos, Array(acc))) ELSE Return(close)

\* An element's outcome inside separated_list0: an element that fails ends the
\* list where it stood before the separator; after an element, a separator
\* and the next element, or the end of the list.
parse_array_element ==
  /\ \/ At("parse_array", "first")
     \/ At("parse_array", "next")
  /\ Returned
  /\ IF ~ret.ok
     THEN ArrayClose(Top.pos, Top.acc)
     ELSE LET acc == Append(Top.acc, ret.val)
              sep == char(input, multispace0(input, ret.pos), ",")
          IN  IF sep.ok
              THEN CallValue([Top EXCEPT !.phase = "next", !.pos = ret.pos,
                                         !.acc = acc],
                             multispace0(input, sep.pos))
              ELSE ArrayClose(ret.pos, acc)
  /\ UNCHANGED <<input, result, furthest>>
  /\ steps' = steps + 1

\* parse_pair: separated_pair(preceded(multispace0, parse_str),
\* preceded(multispace0, char(':')), preceded(multispace0, parse_value))
parse_pair_key ==
  /\ At("parse_pair", "key")
  /\ LET key == parse_str(input, multispace0(input, Top.start))
         colon == char(input, multispace0(input, key.pos), ":")
     IN  IF ~key.ok THEN Return(key)
         ELSE IF ~colon.ok THEN Return(colon)
         ELSE CallValue([Top EXCEPT !.phase = "value", !.pos = colon.pos,
                                    !.key = key.val],
                        multispace0(input, colon.pos))
  /\ UNCHANGED <<input, result, furthest>>
  /\ steps' = steps + 1

parse_pair_value ==
  /\ At("parse_pair", "value")
  /\ Returned
  /\ IF ret.ok THEN Return(Ok(ret.pos, Pair(Top.key, ret.val))) ELSE Return(ret)
  /\ UNCHANGED <<input, result, furthest>>
  /\ steps' = steps + 1

\* The closure of parse_object's map: every (k, v) becomes (key, v) when k is
\* a JsonValue::Str(key), and panic!("key") otherwise.
Panic == [t |-> "panic"]

\* ObjectOfPairs collecting into a map: of the pairs of one key the last wins.
RECURSIVE LastWins(_)
LastWins(ps) ==
  IF ps = <<>> THEN <<>>
  ELSE IF \E j \in 2..Len(ps) : ps[j].key = Head(ps).key
       THEN LastWins(Tail(ps))
       ELSE <<Head(ps)>> \o LastWins(Tail(ps))

ObjectOfPairsLastWins(pairs) ==
  IF \A i \in DOMAIN pairs : pairs[i].key.t = "Str"
  THEN Object([i \in DOMAIN LastWins(pairs) |->
                 <<LastWins(pairs)[i].key.s, LastWins(pairs)[i].val>>])
  ELSE Panic

ObjectOfPairs(pairs) ==
  IF \A i \in DOMAIN pairs : pairs[i].key.t = "Str"
  THEN Object([i \in DOMAIN pairs |-> <<pairs[i].key.s, pairs[i].val>>])
  ELSE Panic

\* parse_object: map(delimited(char('{'), separated_list1(preceded(multispace0,
\* char(',')), preceded(multispace0, parse_pair)), preceded(multispace0,
\* char('}'))), |pairs| ...)
parse_object_open ==
  /\ At("parse_object", "open")
  /\ LET open == char(input, Top.start, "{")
     IN  IF ~open.ok
         THEN Return(open)
         ELSE Call([Top EXCEPT !.phase = "first", !.pos = open.pos],
                   "parse_pair", "key", multispace0(input, open.pos))
  /\ UNCHANGED <<input, result, furthest>>
  /\ steps' = steps + 1

ObjectClose(p, acc) ==
  LET close == char(input, multispace0(input, p), "}")
      object == ObjectOfPairs(acc)
  IN  IF ~close.ok THEN Return(close)
      ELSE IF object = Panic
      THEN /\ stack' = stack
           /\ ret' = NoRet
           /\ status' = "panicked"
      ELSE Return(Ok(close.pos, object))

\* A pair's outcome inside separated_list1: the first pair's failure is the
\* list's failure; a later pair that fails ends the list where it stood before
\* the separator.
parse_object_pair ==
  /\ \/ At("parse_object", "first")
     \/ At("parse_object", "next")
  /\ Returned
  /\ IF ~ret.ok
     THEN IF Top.phase = "first"
          THEN Return(ret)
          ELSE ObjectClose(Top.pos, Top.acc)
     ELSE LET acc == Append(Top.acc, ret.val)
              sep == char(input, multispace0(input, ret.pos), ",")
          IN  IF sep.ok
              THEN Call([Top EXCEPT !.phase = "next", !.pos = ret.pos,
                                    !.acc = acc],
                        "parse_pair", "key", multispace0(input, sep.pos))
              ELSE ObjectClose(ret.pos, acc)
  /\ UNCHANGED <<input, result, furthest>>
  /\ steps' = steps + 1

Next ==
  \/ parse_json_call
  \/ parse_json_ret
  \/ parse_value_enter
  \/ parse_value_array
  \/ parse_value_object
  \/ parse_array_open
  \/ parse_array_element
  \/ parse_pair_key
  \/ parse_pair_value
  \/ parse_object_open
  \/ parse_object_pair

Spec == Init /\ [][Next]_vars


---------------------------------------------------------------------------
(* The claims *)

Finished == status = "returned"
WholeInput == Len(input) + 1
Text(s) == input = s

\* C1: parse_json succeeds only when nothing but whitespace follows the value:
\* a success leaves no input.
C1_NoTrailingContent == Finished /\ result.ok => result.pos = WholeInput

\* s is open, whitespace, close.
EmptyContainerText(s, open, close) ==
  /\ Len(s) >= 2
  /\ s[1] = open
  /\ s[Len(s)] = close
  /\ \A i \in 2..(Len(s) - 1) : IsSpace(s[i])

\* C2: '[' w ']' parses to an Array of no element and '{' w '}' to an Object
\* of no pair, for every run of whitespace w.
C2_EmptyContainers ==
  Finished =>
    /\ EmptyContainerText(input, "[", "]") =>
         result.ok /\ result.val.t = "Array" /\ result.val.items = <<>>
    /\ EmptyContainerText(input, "{", "}") =>
         result.ok /\ result.val.t = "Object" /\ result.val.pairs = <<>>

\* C3: no input ends the process: no run ends in the panic of parse_object's
\* key conversion or in any other abort, and '{1:2}' is a returned failure.
C3_NeverAborts ==
  /\ status \notin {"panicked", "stack_overflow"}
  /\ Finished /\ Text(<<"{", "1", ":", "2", "}">>) => ~result.ok

\* Where the number '-'? digits ('.' digits)? ([eE] [+-]? digits)? at p ends
\* (0: no digit follows the sign).
NumberEnd(s, p) ==
  LET a == IF p <= Len(s) /\ s[p] = "-" THEN p + 1 ELSE p
      b == DigitsEnd(s, a)
      c == IF b <= Len(s) /\ s[b] = "." /\ DigitsEnd(s, b + 1) > b + 1
           THEN DigitsEnd(s, b + 1) ELSE b
      e == IF c + 1 <= Len(s) /\ s[c + 1] \in {"+", "-"} THEN c + 2 ELSE c + 1
      d == IF c <= Len(s) /\ s[c] \in {"e", "E"} /\ DigitsEnd(s, e) > e
           THEN DigitsEnd(s, e) ELSE c
  IN  IF b > a THEN d ELSE 0

\* C4: a number is '-'? digits ('.' digits)? ([eE] [+-]? digits)?, consumed as
\* one unit: a text that is one such number parses to a Number with no input
\* left, and '-12.5e2' to -1250.
C4_NumberLexeme ==
  Finished /\ NumberEnd(input, 1) = WholeInput =>
    /\ result.ok
    /\ result.pos = WholeInput
    /\ result.val.t = "Num"
    /\ Text(<<"-", "1", "2", ".", "5", "e", "2">>) =>
         result.val.f = [neg |-> TRUE, mag |-> 1250]

\* The first quote from p on that no backslash escapes (0: none), and a
\* string body with its escapes decoded.
RECURSIVE UnescapedQuote(_, _)
UnescapedQuote(s, p) ==
  IF p > Len(s) THEN 0
  ELSE IF s[p] = "\\" THEN UnescapedQuote(s, p + 2)
  ELSE IF s[p] = "\"" THEN p
  ELSE UnescapedQuote(s, p + 1)

Unescape(c) ==
  CASE c = "n" -> "\n" [] c = "t" -> "\t" [] c = "r" -> "\r" [] OTHER -> c

RECURSIVE Decode(_)
Decode(s) ==
  IF s = <<>> THEN <<>>
  ELSE IF Head(s) = "\\" /\ Len(s) >= 2
       THEN <<Unescape(s[2])>> \o Decode(Tail(Tail(s)))
       ELSE <<Head(s)>> \o Decode(Tail(s))

\* C5: a string ends at its first unescaped quote and its escapes are decoded;
\* without a closing quote it fails.
C5_StringEscapes ==
  Finished /\ input # <<>> /\ input[1] = "\"" =>
    LET q == UnescapedQuote(input, 2)
    IN  /\ q = 0 => ~result.ok
        /\ q = Len(input) =>
             /\ result.ok
             /\ result.val.t = "Str"
             /\ result.val.s = Decode(SubSeq(input, 2, q - 1))

\* C6: a trailing comma before ']' or '}' fails with TrailingComma, and two
\* elements without a separator fail with ExpectedCommaOrBracket.
C6_SeparatorErrors ==
  Finished =>
    /\ Text(<<"[", "1", ",", "2", ",", "]">>)
         \/ Text(<<"{", "\"", "a", "\"", ":", "1", ",", "}">>) =>
           ~result.ok /\ result.kind = "TrailingComma"
    /\ Text(<<"[", "1", " ", "2", "]">>) =>
         ~result.ok /\ result.kind = "ExpectedCommaOrBracket"

\* C7: the nesting of parse_value calls is guarded: it stays within what the
\* stack holds, and a text nested more deeply is a returned failure
\* (NestingTooDeep), never a call past the stack's room.
C7_NestingGuarded ==
  /\ Depth(stack) <= StackLimit
  /\ status # "stack_overflow"

\* C8: a failure of parse_json is reported at the furthest position at which
\* an attempted alternative failed.
C8_DeepestError == Finished /\ ~result.ok => result.pos = furthest

\* A Value written out as JSON text: a Number as its sign and decimal digits
\* (no number of the texts parsed has a leading zero, which an f64 does not
\* keep), a String as its characters between quotes.
DigitChar(d) ==
  CASE d = 0 -> "0" [] d = 1 -> "1" [] d = 2 -> "2" [] d = 3 -> "3"
    [] d = 4 -> "4" [] d = 5 -> "5" [] d = 6 -> "6" [] d = 7 -> "7"
    [] d = 8 -> "8" [] d = 9 -> "9"

RECURSIVE Decimal(_)
Decimal(n) ==
  IF n < 10 THEN <<DigitChar(n)>>
  ELSE Decimal(n \div 10) \o <<DigitChar(n % 10)>>

RECURSIVE Serialize(_)
RECURSIVE SerializeItems(_)
RECURSIVE SerializePairs(_)
Serialize(v) ==
  CASE v.t = "Null" -> <<"n", "u", "l", "l">>
    [] v.t = "Bool" ->
         IF v.b THEN <<"t", "r", "u", "e">> ELSE <<"f", "a", "l", "s", "e">>
    [] v.t = "Num" ->
         (IF v.f.neg THEN <<"-">> ELSE <<>>) \o Decimal(v.f.mag)
    [] v.t = "Str" -> <<"\"">> \o v.s \o <<"\"">>
    [] v.t = "Array" -> <<"[">> \o SerializeItems(v.items) \o <<"]">>
    [] v.t = "Object" -> <<"{">> \o SerializePairs(v.pairs) \o <<"}">>

SerializeItems(xs) ==
  IF xs = <<>> THEN <<>>
  ELSE Serialize(Head(xs))
         \o (IF Len(xs) > 1 THEN <<",">> \o SerializeItems(Tail(xs)) ELSE <<>>)

SerializePairs(ps) ==
  IF ps = <<>> THEN <<>>
  ELSE <<"\"">> \o Head(ps)[1] \o <<"\"", ":">> \o Serialize(Head(ps)[2])
         \o (IF Len(ps) > 1 THEN <<",">> \o SerializePairs(Tail(ps)) ELSE <<>>)

\* s[lo..hi] without the whitespace outside the strings of s: a character is
\* inside a string when an odd number of quotes precedes it.
InString(s, i) == Cardinality({j \in 1..(i - 1) : s[j] = "\""}) % 2 = 1

RECURSIVE StripSpace(_, _, _)
StripSpace(s, lo, hi) ==
  IF lo > hi THEN <<>>
  ELSE IF lo = hi
       THEN IF IsSpace(s[lo]) /\ ~InString(s, lo) THEN <<>> ELSE <<s[lo]>>
       ELSE StripSpace(s, lo, (lo + hi) \div 2)
              \o StripSpace(s, (lo + hi) \div 2 + 1, hi)

\* C9: the pairs of a parsed Object and the elements of a parsed Array are
\* those of the text, one entry each, in the text's order, duplicate keys
\* included: writing the Value out gives back the text that was consumed,
\* whitespace apart.
C9_SourceOrderKept ==
  Finished /\ result.ok =>
    Serialize(result.val)
      = StripSpace(input, 1, result.pos - 1)

\* An Object of two pairs of one key and different values has been returned.
C9_DuplicateKeysParsed ==
  /\ Finished
  /\ result.ok
  /\ result.val.t = "Object"
  /\ Len(result.val.pairs) = 2
  /\ result.val.pairs[1][1] = result.val.pairs[2][1]
  /\ result.val.pairs[1][2] # result.val.pairs[2][2]

\* The number of opening brackets of s, and the steps a parse of s may take.
Brackets(s) == Cardinality({i \in DOMAIN s : s[i] \in {"[", "{"}})
StepBound(s) == 8 * (Len(s) + 1)

\* The guards of the actions of Next: the innermost call has a step to take.
HasNextStep ==
  \/ At("parse_json", "call")
  \/ At("parse_json", "value") /\ Returned
  \/ At("parse_value", "enter")
  \/ At("parse_value", "array") /\ Returned
  \/ At("parse_value", "object") /\ Returned
  \/ At("parse_array", "open")
  \/ (At("parse_array", "first") \/ At("parse_array", "next")) /\ Returned
  \/ At("parse_pair", "key")
  \/ At("parse_pair", "value") /\ Returned
  \/ At("parse_object", "open")
  \/ (At("parse_object", "first") \/ At("parse_object", "next")) /\ Returned

\* Every parse_value called by parse_array or parse_pair starts after its
\* caller's start; the nesting and the steps are bounded by the text; a
\* running parse has a step to take.
C10_ShorterSuffix ==
  /\ \A i \in 2..Len(stack) :
       stack[i].rule = "parse_value"
         /\ stack[i - 1].rule \in {"parse_array", "parse_pair"}
       => stack[i].start > stack[i - 1].start
  /\ Depth(stack) <= 1 + Brackets(input)
  /\ steps <= StepBound(input)
  /\ status = "running" => HasNextStep

\* A step: a rule that returns Ok returns a position after its start.
C10_ProperSuffix ==
  /\ stack # <<>> /\ Len(stack') < Len(stack) /\ ret'.ok => ret'.pos > Top.start
  /\ stack # <<>> /\ status' = "returned" /\ result'.ok
       => result'.pos > stack[1].start

\* C10: parse_json terminates: parse_array and parse_pair call parse_value on a
\* strictly shorter suffix of their own input, every rule that succeeds
\* returns a proper suffix of its input, the nesting of parse_value calls
\* below the root is at most the number of '[' and '{' of the text, and a run
\* has a next step until it ends, within a number of steps linear in the
\* length of the text.
C10_Terminates == []C10_ShorterSuffix /\ [][C10_ProperSuffix]_vars

\* A text of an array inside an array has been parsed to the end.
C10_NestedParsed ==
  /\ Finished
  /\ result.ok
  /\ result.val.t = "Array"
  /\ result.val.items # <<>>
  /\ result.val.items[1].t = "Array"

====
